---- MODULE Spec2Model ----
(***************************************************************************)
(* Model of the graph-construction and integrity-verification scripts of   *)
(* karliky/turrero:                                                        *)
(*   scripts/create_graph.py     read_json, parse_stat, process_threads,   *)
(*                               main                                      *)
(*   scripts/integrity_check.py  main                                      *)
(*                                                                         *)
(* Python values are modelled as follows.                                  *)
(*   - a str whose characters matter (a raw stat, a category string) is a  *)
(*     sequence of one-character strings, <<"1", ".", "5", "K">>;          *)
(*   - an identifier or a summary is an atomic TLA+ string;                *)
(*   - a value whose Python type the code inspects is a tagged record      *)
(*     [t |-> "str", s |-> ...], [t |-> "list", l |-> ...], ...;           *)
(*   - a dict is a sequence of [k |-> key, v |-> value] entries with       *)
(*     distinct keys, in insertion order (what Python iterates);           *)
(*   - a call either returns or raises: [ok |-> TRUE, val |-> ...] or      *)
(*     [ok |-> FALSE, exc |-> "<exception class>"].                        *)
(***************************************************************************)
EXTENDS Integers, Sequences, FiniteSets, TLC

VARIABLES
    pc,               \* position of the running script
    value,            \* parse_stat: the argument
    data,             \* read_json: the decoded JSON document
    files,            \* integrity_check.main: artifact name -> identifier set
    result,           \* what the call under study returned, raised or printed
    threads_data,     \* process_threads: thread mapping
    summaries,        \* process_threads: summary mapping
    categories,       \* process_threads: category mapping
    related_threads,  \* process_threads: the local reverse-embed dict
    graph_data,       \* process_threads: the output list
    first_run         \* what the first run saw and produced (history)

vars == <<pc, value, data, files, result, threads_data, summaries, categories,
          related_threads, graph_data, first_run>>

(***************************************************************************)
(* Bounds                                                                  *)
(***************************************************************************)
MaxStatLen == 3

\* Characters a raw stat is drawn from: digits, the thousands separator, the
\* decimal point, both magnitude suffixes and one character that is none of these.
StatChars == {"0", "1", "5", ",", ".", "K", "M", "x"}

(***************************************************************************)
(* Generic helpers                                                         *)
(***************************************************************************)
None == [t |-> "none"]

\* tagged Python values; each type keeps its payload under a field of its own
StrV(s) == [t |-> "str", s |-> s]

IntV(n) == [t |-> "int", n |-> n]

ListV(l) == [t |-> "list", l |-> l]

DictV(r) == [t |-> "dict", d |-> r]

Ok(v) == [ok |-> TRUE, val |-> v]

Raise(e) == [ok |-> FALSE, exc |-> e]

SeqsUpTo(S, n) == UNION {[1..k -> S] : k \in 0..n}

RECURSIVE Pow10(_)
Pow10(k) == IF k = 0 THEN 1 ELSE 10 * Pow10(k - 1)

\* s.replace(c, ''): every occurrence of the character c removed
RECURSIVE Remove(_, _)
Remove(s, c) ==
    IF s = <<>> THEN <<>>
    ELSE IF Head(s) = c THEN Remove(Tail(s), c)
         ELSE <<Head(s)>> \o Remove(Tail(s), c)

\* c in s, for a character c and a str s
Contains(s, c) == \E i \in 1..Len(s) : s[i] = c

(***************************************************************************)
(* Python's int(str), float(str) and str(int), on the characters above     *)
(***************************************************************************)
Digits == {"0", "1", "2", "3", "4", "5", "6", "7", "8", "9"}

DigitVal(c) ==
    CASE c = "0" -> 0 [] c = "1" -> 1 [] c = "2" -> 2 [] c = "3" -> 3
      [] c = "4" -> 4 [] c = "5" -> 5 [] c = "6" -> 6 [] c = "7" -> 7
      [] c = "8" -> 8 [] c = "9" -> 9

DigitChar(d) ==
    CASE d = 0 -> "0" [] d = 1 -> "1" [] d = 2 -> "2" [] d = 3 -> "3"
      [] d = 4 -> "4" [] d = 5 -> "5" [] d = 6 -> "6" [] d = 7 -> "7"
      [] d = 8 -> "8" [] d = 9 -> "9"

AllDigits(s) == \A i \in 1..Len(s) : s[i] \in Digits

\* the number a string of digits denotes (0 for the empty string)
RECURSIVE DigitsValue(_)
DigitsValue(s) ==
    IF s = <<>> THEN 0
    ELSE 10 * DigitsValue(SubSeq(s, 1, Len(s) - 1)) + DigitVal(s[Len(s)])

\* str(n) for an int n >= 0
RECURSIVE StrOfInt(_)
StrOfInt(n) ==
    IF n < 10 THEN <<DigitChar(n)>>
    ELSE StrOfInt(n \div 10) \o <<DigitChar(n % 10)>>

\* int(s): a non-empty string of digits, anything else raises ValueError
\* (StatChars holds no sign, blank or underscore, which int() would accept)
PyInt(s) ==
    IF s # <<>> /\ AllDigits(s) THEN Ok(DigitsValue(s)) ELSE Raise("ValueError")

\* float(s): digits with at most one decimal point and at least one digit;
\* the value is num / den, kept exact
PyFloat(s) ==
    LET dots == {i \in 1..Len(s) : s[i] = "."}
        body == Remove(s, ".")
    IN  IF /\ Cardinality(dots) <= 1
           /\ body # <<>>
           /\ AllDigits(body)
        THEN LET frac == IF dots = {} THEN 0
                         ELSE Len(s) - (CHOOSE i \in dots : TRUE)
             IN  Ok([num |-> DigitsValue(body), den |-> Pow10(frac)])
        ELSE Raise("ValueError")

\* int(float(s) * mult): truncation of a non-negative product.  The product
\* is computed exactly; on the strings of StatChars up to five characters the
\* binary floating-point product truncates to the same integer.
ScaledInt(s, mult) ==
    LET f == PyFloat(s)
    IN  IF f.ok THEN Ok((f.val.num * mult) \div f.val.den) ELSE f

\* str(value): a str is itself, an int is its decimal digits
PyStr(v) == IF v.t = "int" THEN StrOfInt(v.n) ELSE v.s

(***************************************************************************)
(* create_graph.py: parse_stat                                             *)
(***************************************************************************)
\* the branch `'K' in value` / `'M' in value` takes
StatUnit(s) ==
    IF Contains(s, "K") THEN "K"
    ELSE IF Contains(s, "M") THEN "M"
    ELSE "none"

parse_stat(v) ==
    LET s == Remove(PyStr(v), ",")
    IN  CASE StatUnit(s) = "K" -> ScaledInt(Remove(s, "K"), 1000)
          [] StatUnit(s) = "M" -> ScaledInt(Remove(s, "M"), 1000000)
          [] OTHER -> IF s # <<>> THEN PyInt(s) ELSE Ok(0)

(***************************************************************************)
(* Specification SpecStat: one call of parse_stat on a bounded raw value   *)
(***************************************************************************)
StatInputs ==
    {StrV(s) : s \in SeqsUpTo(StatChars, MaxStatLen)}
        \cup {IntV(n) : n \in {0, 7, 42, 105}}

Idle ==
    /\ data = None
    /\ files = None
    /\ threads_data = None
    /\ summaries = None
    /\ categories = None
    /\ related_threads = None
    /\ graph_data = None
    /\ first_run = None

InitStat ==
    /\ pc = "call"
    /\ value \in StatInputs
    /\ result = None
    /\ Idle

CallParseStat ==
    /\ pc = "call"
    /\ value # None
    /\ result' = parse_stat(value)
    /\ pc' = "done"
    /\ UNCHANGED <<value, data, files, threads_data, summaries, categories,
                   related_threads, graph_data, first_run>>

NextStat == CallParseStat

SpecStat == InitStat /\ [][NextStat]_vars

(***************************************************************************)
(* Claims about parse_stat (checked under SpecStat)                        *)
(***************************************************************************)
StrippedStat(v) == Remove(PyStr(v), ",")

LastChar(s) == IF s = <<>> THEN "" ELSE s[Len(s)]

\* a raw stat the scraper is meant to produce: separators aside, it is empty,
\* a string of digits, or a decimal number followed by exactly one K or M
WellFormedStat(v) ==
    LET s == StrippedStat(v)
    IN  \/ s = <<>>
        \/ AllDigits(s)
        \/ /\ LastChar(s) \in {"K", "M"}
           /\ PyFloat(SubSeq(s, 1, Len(s) - 1)).ok

\* the reference parser of the specification: the suffix rule looks at the
\* last character only
RefParseStat(v) ==
    LET s == StrippedStat(v)
        prefix == SubSeq(s, 1, Len(s) - 1)
    IN  CASE LastChar(s) = "K" -> ScaledInt(prefix, 1000)
          [] LastChar(s) = "M" -> ScaledInt(prefix, 1000000)
          [] OTHER -> IF s = <<>> THEN Ok(0) ELSE PyInt(s)

\* C1: parse_stat never raises, and every malformed raw value gives 0.
C1_NeverRaisesMalformedIsZero ==
    pc = "done" =>
        /\ result.ok
        /\ (~WellFormedStat(value) => result.val = 0)

\* C2: parse_stat equals the reference parser on every well-formed raw stat,
\* and the suffix rule applies only when K or M is the last character: a
\* string whose last character is neither is parsed by the integer rule alone.
C2_EqualsReferenceParser ==
    pc = "done" =>
        /\ (WellFormedStat(value) => result = RefParseStat(value))
        /\ (LastChar(StrippedStat(value)) \notin {"K", "M"} =>
                result = RefParseStat(value))

\* Supporting fact for C2: on well-formed raw stats the code and the reference
\* parser agree, and the five examples of the specification come out as stated.
WellFormedStatsAgree ==
    /\ pc = "done" /\ WellFormedStat(value) => result = RefParseStat(value)
    /\ parse_stat(StrV(<<"1", ",", "2", "3", "4">>)) = Ok(1234)
    /\ parse_stat(StrV(<<"1", ".", "5", "K">>)) = Ok(1500)
    /\ parse_stat(StrV(<<"2", "M">>)) = Ok(2000000)
    /\ parse_stat(StrV(<<>>)) = Ok(0)
    /\ parse_stat(StrV(<<"4", "2">>)) = Ok(42)

(***************************************************************************)
(* Python dicts                                                            *)
(*   A JSON object (a tweet, an item, a stats record) is a TLA+ record:    *)
(*   only membership and lookup are used on it.  A dict the scripts build  *)
(*   and iterate is a sequence of entries in insertion order.              *)
(***************************************************************************)
EmptyRecord == <<>>

Has(r, k) == k \in DOMAIN r

\* r.get(k, default) on a JSON object
Get(r, k, default) == IF Has(r, k) THEN r[k] ELSE default

EmptyDict == <<>>

KeySet(d) == {d[i].k : i \in 1..Len(d)}

\* d.get(k, default) on a built dict
DictGet(d, k, default) ==
    IF k \in KeySet(d)
    THEN d[CHOOSE i \in 1..Len(d) : d[i].k = k].v
    ELSE default

\* d[k] = v: a new key goes last, a known key keeps its place
DictSet(d, k, v) ==
    IF k \in KeySet(d)
    THEN [i \in 1..Len(d) |-> IF d[i].k = k THEN [k |-> k, v |-> v] ELSE d[i]]
    ELSE Append(d, [k |-> k, v |-> v])

\* a dict comprehension: the entries are evaluated in order, the first one
\* that raises ends the comprehension with its exception
RECURSIVE DictOf(_, _)
DictOf(entries, acc) ==
    IF entries = <<>> THEN Ok(acc)
    ELSE LET e == Head(entries)
         IN  IF ~e.ok THEN e
             ELSE IF e.val = None THEN DictOf(Tail(entries), acc)
             ELSE DictOf(Tail(entries), DictSet(acc, e.val.k, e.val.v))

(***************************************************************************)
(* create_graph.py: read_json                                              *)
(***************************************************************************)
\* s.split(','): the pieces between the commas, nothing trimmed
RECURSIVE Split(_)
Split(s) ==
    IF ~Contains(s, ",") THEN <<s>>
    ELSE LET i == CHOOSE j \in 1..Len(s) :
                      s[j] = "," /\ \A h \in 1..(j - 1) : s[h] # ","
         IN  <<SubSeq(s, 1, i - 1)>> \o Split(SubSeq(s, i + 1, Len(s)))

\* item['categories'].split(',') if isinstance(item['categories'], str)
\* else item['categories']
SplitIfStr(c) == IF c.t = "str" THEN ListV(Split(c.s)) ELSE c

\* key in element, for an element of the top-level array
PyIn(key, e) ==
    CASE e.t = "dict" -> Ok(Has(e.d, key))
      [] e.t = "list" -> Ok(FALSE)
      [] OTHER -> Raise("TypeError")

\* item['id'] : <field of item> for one element of the array
ItemEntry(item, field) ==
    IF item.t # "dict" THEN Raise("TypeError")
    ELSE IF ~Has(item.d, "id") \/ ~Has(item.d, field) THEN Raise("KeyError")
    ELSE Ok([k |-> item.d.id,
             v |-> IF field = "categories" THEN SplitIfStr(item.d[field])
                   ELSE item.d[field]])

\* bool(element)
Truthy(e) ==
    CASE e.t = "dict" -> DOMAIN e.d # {}
      [] e.t = "list" -> e.l # <<>>
      [] e.t = "int" -> e.n # 0
      [] OTHER -> FALSE

\* sublist[0]['id'] : sublist ... if sublist
ThreadEntry(sublist) ==
    IF ~Truthy(sublist) THEN Ok(None)
    ELSE IF sublist.t = "dict" THEN Raise("KeyError")
    ELSE IF sublist.t # "list" THEN Raise("TypeError")
    ELSE IF ~Has(sublist.l[1], "id") THEN Raise("KeyError")
    ELSE Ok([k |-> sublist.l[1].id, v |-> sublist.l])

\* the branch read_json takes on a non-empty array
SourceKind(d) ==
    LET c == PyIn("categories", d.l[1])
    IN  IF ~c.ok THEN "raise"
        ELSE IF c.val THEN "Category"
        ELSE IF PyIn("summary", d.l[1]).val THEN "Summary"
        ELSE "Thread"

read_json(d) ==
    IF d.t # "list" THEN Raise("ValueError")
    ELSE IF d.l = <<>> THEN Raise("IndexError")
    ELSE CASE SourceKind(d) = "raise" -> PyIn("categories", d.l[1])
           [] SourceKind(d) = "Category" ->
                  DictOf([i \in 1..Len(d.l) |-> ItemEntry(d.l[i], "categories")],
                         EmptyDict)
           [] SourceKind(d) = "Summary" ->
                  DictOf([i \in 1..Len(d.l) |-> ItemEntry(d.l[i], "summary")],
                         EmptyDict)
           [] OTHER ->
                  DictOf([i \in 1..Len(d.l) |-> ThreadEntry(d.l[i])], EmptyDict)

(***************************************************************************)
(* Specification SpecLoad: one call of read_json on a bounded document     *)
(***************************************************************************)
MaxDocLen == 2

\* category values as the artifacts give them: comma-joined or already split
CategoryValues ==
    {StrV(<<"a">>), StrV(<<"a", ",", "b">>), StrV(<<"a", ",", " ", "b">>),
     StrV(<<>>), ListV(<<<<"a">>, <<"b">>>>), ListV(<<>>)}

LoadElements ==
    {DictV([id |-> i, categories |-> c]) : i \in {"1", "2"}, c \in CategoryValues}
        \cup {DictV([id |-> i, summary |-> "s"]) : i \in {"1", "2"}}
        \cup {DictV([id |-> "1"]), DictV([categories |-> StrV(<<"a">>)]),
              DictV(EmptyRecord)}
        \cup {ListV(<<>>), ListV(<<[id |-> "1"]>>), ListV(<<[id |-> "2"]>>),
              ListV(<<[id |-> "1"], [id |-> "3"]>>),
              ListV(<<[stats |-> EmptyRecord]>>)}
        \cup {IntV(7)}

LoadInputs ==
    {ListV(l) : l \in SeqsUpTo(LoadElements, MaxDocLen)}
        \cup {DictV([id |-> "1", summary |-> "s"]), StrV(<<"a">>), IntV(7)}

InitLoad ==
    /\ pc = "call"
    /\ data \in LoadInputs
    /\ result = None
    /\ value = None
    /\ files = None
    /\ threads_data = None
    /\ summaries = None
    /\ categories = None
    /\ related_threads = None
    /\ graph_data = None
    /\ first_run = None

CallReadJson ==
    /\ pc = "call"
    /\ data # None
    /\ threads_data = None
    /\ result' = read_json(data)
    /\ pc' = "done"
    /\ UNCHANGED <<value, data, files, threads_data, summaries, categories,
                   related_threads, graph_data, first_run>>

NextLoad == CallReadJson

SpecLoad == InitLoad /\ [][NextLoad]_vars

(***************************************************************************)
(* Claims about read_json (checked under SpecLoad)                         *)
(***************************************************************************)
\* no classification rule can be tried: the array has no first element
NoFirstElement(d) == d.t = "list" /\ d.l = <<>>

\* C3: read_json returns a mapping or fails with the format error
\* (ValueError); it fails with the format error whenever the document is not
\* an array or has no first element to classify, and nothing else escapes.
C3_OnlyFormatErrorEscapes ==
    pc = "done" =>
        /\ (~result.ok => result.exc = "ValueError")
        /\ (data.t # "list" \/ NoFirstElement(data) =>
                ~result.ok /\ result.exc = "ValueError")

\* s.strip(): blanks removed at both ends
RECURSIVE Strip(_)
Strip(s) ==
    IF s = <<>> THEN s
    ELSE IF Head(s) = " " THEN Strip(Tail(s))
    ELSE IF s[Len(s)] = " " THEN Strip(SubSeq(s, 1, Len(s) - 1))
    ELSE s

\* the normal form the specification asks for: a comma-joined string becomes
\* the list of its trimmed labels, a list stays as it is
TrimmedLabels(c) ==
    IF c.t = "str"
    THEN ListV([i \in 1..Len(Split(c.s)) |-> Strip(Split(c.s)[i])])
    ELSE c

\* C4: every category value the Source Loader returns is the trimmed-label
\* normal form of the value some item of the document gives for that id.
C4_CategoriesTrimmed ==
    pc = "done" /\ result.ok /\ SourceKind(data) = "Category" =>
        \A i \in 1..Len(result.val) :
            \E j \in 1..Len(data.l) :
                /\ data.l[j].d.id = result.val[i].k
                /\ result.val[i].v = TrimmedLabels(data.l[j].d.categories)

(***************************************************************************)
(* integrity_check.py                                                      *)
(***************************************************************************)
\* read_csv_ids / read_json_ids: the set of the rows' id fields
read_ids(rows) == {rows[i].id : i \in 1..Len(rows)}

\* the artifacts, in the order main's dict lists them
FileNames ==
    <<"turras.csv", "tweets_exam.json", "tweets_map.json", "tweets_summary.json">>

\* set.union(*all_ids_sets)
UnionAll(fs) == UNION {fs[f] : f \in DOMAIN fs}

\* set.intersection(*all_ids_sets)
IntersectionAll(fs) == {x \in UnionAll(fs) : \A f \in DOMAIN fs : x \in fs[f]}

\* faulty variant: a line for every artifact, also one that misses nothing
RECURSIVE MissingLinesAll(_, _)
MissingLinesAll(fs, names) ==
    IF names = <<>> THEN <<>>
    ELSE <<[file |-> Head(names), missing |-> UnionAll(fs) \ fs[Head(names)]]>>
             \o MissingLinesAll(fs, Tail(names))

\* the lines the else branch prints: one per artifact that misses something
RECURSIVE MissingLines(_, _)
MissingLines(fs, names) ==
    IF names = <<>> THEN <<>>
    ELSE LET missing == UnionAll(fs) \ fs[Head(names)]
             rest == MissingLines(fs, Tail(names))
         IN  IF missing # {}
             THEN <<[file |-> Head(names), missing |-> missing]>> \o rest
             ELSE rest

\* what main prints for the identifier sets fs
IntegrityReport(fs) ==
    IF Cardinality(IntersectionAll(fs)) = Cardinality(UnionAll(fs))
    THEN [consistent |-> TRUE, lines |-> <<>>]
    ELSE [consistent |-> FALSE, lines |-> MissingLines(fs, FileNames)]

(***************************************************************************)
(* Specification SpecIntegrity: one run of integrity_check.main            *)
(***************************************************************************)
Row(i) == [id |-> i]

\* the rows of one artifact: any set of identifiers in file order, and a few
\* files with a repeated or out-of-order row
RowLists ==
    {<<>>, <<Row("1")>>, <<Row("2")>>, <<Row("3")>>,
     <<Row("1"), Row("2")>>, <<Row("1"), Row("3")>>, <<Row("2"), Row("3")>>,
     <<Row("1"), Row("2"), Row("3")>>,
     <<Row("3"), Row("1")>>, <<Row("2"), Row("2")>>}

InitIntegrity ==
    /\ pc = "call"
    /\ data \in [{FileNames[i] : i \in 1..Len(FileNames)} -> RowLists]
    /\ files = None
    /\ result = None
    /\ value = None
    /\ threads_data = None
    /\ summaries = None
    /\ categories = None
    /\ related_threads = None
    /\ graph_data = None
    /\ first_run = None

RunIntegrityCheck ==
    /\ pc = "call"
    /\ files = None
    /\ LET fs == [f \in DOMAIN data |-> read_ids(data[f])]
       IN  /\ files' = fs
           /\ result' = IntegrityReport(fs)
    /\ pc' = "done"
    /\ UNCHANGED <<value, data, threads_data, summaries, categories,
                   related_threads, graph_data, first_run>>

NextIntegrity == RunIntegrityCheck

SpecIntegrity == InitIntegrity /\ [][NextIntegrity]_vars

\* C6: the verifier reports full consistency exactly when all identifier sets
\* are equal; otherwise it lists, in artifact order, exactly the artifacts
\* whose set differs from the union, each with the union minus its own set.
C6_IntegrityReport ==
    pc = "done" =>
        LET U == UNION {files[f] : f \in DOMAIN files}
            allEqual == \A f, g \in DOMAIN files : files[f] = files[g]
            listed == {result.lines[i].file : i \in 1..Len(result.lines)}
        IN  /\ result.consistent <=> allEqual
            /\ ~allEqual =>
                /\ listed = {f \in DOMAIN files : files[f] # U}
                /\ \A i \in 1..Len(result.lines) :
                       /\ result.lines[i].missing = U \ files[result.lines[i].file]
                       /\ result.lines[i].missing # {}
                /\ \A i, j \in 1..Len(result.lines) :
                       i < j =>
                           \E a, b \in 1..Len(FileNames) :
                               /\ a < b
                               /\ FileNames[a] = result.lines[i].file
                               /\ FileNames[b] = result.lines[j].file

\* C6 witness: three artifacts hold {1,2,3}, one holds {1,3}, and the report
\* names that artifact alone, with {2} missing.
C6_Witness ==
    /\ pc = "done"
    /\ files["tweets_map.json"] = {"1", "3"}
    /\ \A f \in DOMAIN files \ {"tweets_map.json"} : files[f] = {"1", "2", "3"}
    /\ result = [consistent |-> FALSE,
                 lines |-> <<[file |-> "tweets_map.json", missing |-> {"2"}]>>]

(***************************************************************************)
(* create_graph.py: process_threads                                        *)
(***************************************************************************)
\* tweet.get("metadata", {}).get("embed", {})
EmbedOf(tweet) == Get(Get(tweet, "metadata", EmptyRecord), "embed", EmptyRecord)

\* embed.get("type") == "embed"
IsEmbed(embed) == Has(embed, "type") /\ embed.type = "embed"

\* faulty variant: the dict of the previous call is kept (a module-level dict)
StaleRelated(previous) == previous

\* related_threads = {}
FreshRelated(previous) == EmptyDict

\* faulty variant: a parent already recorded for the target is not recorded again
AddRelatedOnce(rel, target, parent_id) ==
    IF \E i \in 1..Len(DictGet(rel, target, <<>>)) :
           DictGet(rel, target, <<>>)[i] = parent_id
    THEN rel
    ELSE DictSet(rel, target, Append(DictGet(rel, target, <<>>), parent_id))

\* related_threads.setdefault(target, []).append(parent_id)
AddRelated(rel, target, parent_id) ==
    DictSet(rel, target, Append(DictGet(rel, target, <<>>), parent_id))

\* faulty variant: the embedding tweet's own id is recorded, not the thread's
RECURSIVE ScanTweetsOwnId(_, _, _)
ScanTweetsOwnId(thread, j, rel) ==
    IF j > Len(thread) THEN Ok(rel)
    ELSE LET embed == EmbedOf(thread[j])
         IN  IF ~IsEmbed(embed) THEN ScanTweetsOwnId(thread, j + 1, rel)
             ELSE IF ~Has(thread[j], "id") \/ ~Has(embed, "id")
                  THEN Raise("KeyError")
             ELSE ScanTweetsOwnId(thread, j + 1,
                      DictSet(rel, embed.id,
                              Append(DictGet(rel, embed.id, <<>>), thread[j].id)))

\* the inner loop over the tweets of one thread, from tweet j on
RECURSIVE ScanTweets(_, _, _)
ScanTweets(thread, j, rel) ==
    IF j > Len(thread) THEN Ok(rel)
    ELSE LET embed == EmbedOf(thread[j])
         IN  IF ~IsEmbed(embed) THEN ScanTweets(thread, j + 1, rel)
             ELSE IF ~Has(thread[1], "id") \/ ~Has(embed, "id")
                  THEN Raise("KeyError")
             ELSE ScanTweets(thread, j + 1,
                             AddRelated(rel, embed.id, thread[1].id))

\* the outer loop over threads_data.values(), from entry i on
RECURSIVE ScanThreads(_, _, _)
ScanThreads(td, i, rel) ==
    IF i > Len(td) THEN Ok(rel)
    ELSE LET r == ScanTweets(td[i].v, 1, rel)
         IN  IF r.ok THEN ScanThreads(td, i + 1, r.val) ELSE r

StatKeys == <<"replies", "likes", "bookmarks", "views">>

ZeroStats == [replies |-> 0, likes |-> 0, bookmarks |-> 0, views |-> 0]

\* faulty variant: the parsed stat overwrites the running total (= for +=)
RECURSIVE AddStatsLastWins(_, _, _)
AddStatsLastWins(stats, k, total) ==
    IF k > Len(StatKeys) THEN Ok(total)
    ELSE LET key == StatKeys[k]
             n == parse_stat(Get(stats, key, IntV(0)))
         IN  IF ~n.ok THEN n
             ELSE AddStatsLastWins(stats, k + 1, [total EXCEPT ![key] = n.val])

\* stats_total[key] += parse_stat(stats.get(key, 0)) for the keys from k on
RECURSIVE AddStats(_, _, _)
AddStats(stats, k, total) ==
    IF k > Len(StatKeys) THEN Ok(total)
    ELSE LET key == StatKeys[k]
             n == parse_stat(Get(stats, key, IntV(0)))
         IN  IF ~n.ok THEN n
             ELSE AddStats(stats, k + 1,
                           [total EXCEPT ![key] = total[key] + n.val])

\* the loop over the tweets of one thread, from tweet j on
RECURSIVE SumTweets(_, _, _)
SumTweets(thread, j, total) ==
    IF j > Len(thread) THEN Ok(total)
    ELSE LET r == AddStats(Get(thread[j], "stats", EmptyRecord), 1, total)
         IN  IF r.ok THEN SumTweets(thread, j + 1, r.val) ELSE r

StatsTotal(thread) == SumTweets(thread, 1, ZeroStats)

BaseUrl == "https://twitter.com/Recuenco/status/"

\* faulty variant: the host add_author.py uses for the author's profile
NodeUrlOtherHost(thread_id) == "https://x.com/Recuenco/status/" \o thread_id

NodeUrl(thread_id) == BaseUrl \o thread_id

\* cat_list = categories.get(thread_id, []), split when it is a str
CatList(cats, thread_id) ==
    LET c == DictGet(cats, thread_id, ListV(<<>>))
    IN  IF c.t = "str" THEN ListV(Split(c.s)) ELSE c

\* [rid for rid in related_threads.get(thread_id, []) if rid != thread_id]
RelatedIds(rel, thread_id) ==
    SelectSeq(DictGet(rel, thread_id, <<>>), LAMBDA rid : rid # thread_id)

\* the dict appended to graph_data for one thread
GraphNode(thread_id, total, sums, cats, rel) ==
    [id |-> thread_id,
     url |-> NodeUrl(thread_id),
     replies |-> total.replies,
     likes |-> total.likes,
     bookmarks |-> total.bookmarks,
     views |-> total.views,
     summary |-> DictGet(sums, thread_id, ""),
     categories |-> CatList(cats, thread_id),
     related_threads |-> RelatedIds(rel, thread_id)]

\* the second loop, over threads_data.items(), from entry i on
RECURSIVE AssembleFrom(_, _, _, _, _, _)
AssembleFrom(td, i, sums, cats, rel, graph) ==
    IF i > Len(td) THEN Ok(graph)
    ELSE LET total == StatsTotal(td[i].v)
         IN  IF ~total.ok THEN total
             ELSE AssembleFrom(td, i + 1, sums, cats, rel,
                      Append(graph,
                             GraphNode(td[i].k, total.val, sums, cats, rel)))

(***************************************************************************)
(* Specification SpecGraph: create_graph.main run twice on the same        *)
(* artifacts, and process_threads called twice on the same mappings        *)
(***************************************************************************)
\* the entries of db/tweets.json: its tweets and its empty sublists
MaxCorpus == 3

ThreadIds == {"1", "2", "3"}

Meta(embed) == [metadata |-> [embed |-> embed]]

Embed(target) == Meta([type |-> "embed", id |-> target])

\* embed descriptors: none, a reference to a thread, a reference to an
\* identifier that heads no thread, and a descriptor of another type
RelEmbeds ==
    {EmptyRecord, Embed("1"), Embed("2"), Embed("9"),
     Meta([type |-> "link", id |-> "1"])}

\* raw stats records: none, an integer, plain and abbreviated strings, and
\* one unparseable value
AggStats ==
    {EmptyRecord,
     [stats |-> [replies |-> IntV(1)]],
     [stats |-> [replies |-> StrV(<<"2">>), likes |-> StrV(<<"1", ".", "5", "K">>)]],
     [stats |-> [replies |-> StrV(<<"3">>), views |-> StrV(<<"2", "M">>),
                 bookmarks |-> StrV(<<"1", ",", "2", "3", "4">>)]],
     [stats |-> [replies |-> StrV(<<"x">>)]]}

\* a tweet: its id and whatever optional fields `more` carries
Tweet(id, more) == [id |-> id] @@ more

\* the sublists of exactly n tweets: a head that names the thread, then
\* tweets with an id of their own
Sublists(heads, more, n) ==
    IF n = 0 THEN {<<>>}
    ELSE {<<Tweet(h, m)>> \o rest :
              h \in heads, m \in more,
              rest \in [1..(n - 1) -> {Tweet("x", b) : b \in more}]}

\* the shapes of a document of at most n entries, as the lengths of its
\* sublists: every tweet counts as one entry and so does an empty sublist
RECURSIVE Shapes(_)
Shapes(n) ==
    IF n = 0 THEN {<<>>}
    ELSE {<<>>} \cup
         UNION {{<<k>> \o r : r \in Shapes(n - (IF k = 0 THEN 1 ELSE k))} :
                    k \in 0..n}

\* the documents of one shape
RECURSIVE DocsOfShape(_, _, _)
DocsOfShape(heads, more, shape) ==
    IF shape = <<>> THEN {<<>>}
    ELSE {<<ListV(sub)>> \o d :
              sub \in Sublists(heads, more, Head(shape)),
              d \in DocsOfShape(heads, more, Tail(shape))}

SummaryDoc ==
    ListV(<<DictV([id |-> "1", summary |-> "s1"]),
            DictV([id |-> "9", summary |-> "s9"])>>)

CategoryDoc ==
    ListV(<<DictV([id |-> "1", categories |-> StrV(<<"a", ",", " ", "b">>)]),
            DictV([id |-> "2", categories |-> ListV(<<<<"a">>, <<"b">>>>)]),
            DictV([id |-> "9", categories |-> StrV(<<"c">>)])>>)

Artifacts(tweets, summary, map) ==
    [tweets |-> tweets, summary |-> summary, map |-> map]

\* the two families db/tweets.json is drawn from: threads that embed one
\* another, and threads that carry stats
TweetFamilies ==
    {[heads |-> ThreadIds, more |-> RelEmbeds],
     [heads |-> {"1", "2"}, more |-> AggStats]}

\* artifacts one of the three read_json calls rejects
BadArtifacts ==
    {Artifacts(DictV([id |-> "1"]), SummaryDoc, CategoryDoc),
     Artifacts(ListV(<<ListV(<<Tweet("1", EmptyRecord)>>)>>),
               ListV(<<>>), CategoryDoc),
     Artifacts(ListV(<<ListV(<<Tweet("1", EmptyRecord)>>)>>),
               SummaryDoc, ListV(<<IntV(7)>>))}

Entry(k, v) == [k |-> k, v |-> v]

\* threads a caller may hand to process_threads directly: also an empty
\* thread, a thread filed under another key than its first tweet's id, and an
\* embed descriptor without id
DirectThreads(k) ==
    {<<Tweet(k, EmptyRecord)>>, <<>>,
     <<Tweet("7", Embed("1")), Tweet("x", Embed("2"))>>,
     <<Tweet(k, Meta([type |-> "embed"]))>>}

DirectThreadMaps ==
    {<<>>}
        \cup UNION {{<<Entry(k, t)>> : t \in DirectThreads(k)} : k \in {"1", "2"}}
        \cup UNION {{<<Entry(k, t), Entry(h, u)>> :
                         t \in DirectThreads(k), u \in DirectThreads(h)} :
                        <<k, h>> \in {<<"1", "2">>, <<"2", "1">>}}

DirectSummaries ==
    {<<>>, <<Entry("1", "s1")>>, <<Entry("9", "s9")>>,
     <<Entry("9", "s9"), Entry("1", "s1")>>}

DirectCategories ==
    {<<>>}
        \cup {<<Entry("1", c)>> :
                  c \in {StrV(<<"a", ",", " ", "b">>), ListV(<<<<"a">>, <<"b">>>>)}}
        \cup {<<Entry("9", ListV(<<<<"c">>>>))>>}
        \cup {<<Entry("9", ListV(<<<<"c">>>>)), Entry("1", c)>> :
                  c \in {StrV(<<"a", ",", " ", "b">>), ListV(<<<<"a">>, <<"b">>>>)}}

\* main is about to read the three artifacts
InitMain ==
    /\ pc = "main"
    /\ \/ \E f \in TweetFamilies, shape \in Shapes(MaxCorpus) :
              \E d \in DocsOfShape(f.heads, f.more, shape) :
                  data = Artifacts(ListV(d), SummaryDoc, CategoryDoc)
       \/ data \in BadArtifacts
    /\ threads_data = None
    /\ summaries = None
    /\ categories = None

\* a caller is about to hand three mappings to process_threads
InitDirect ==
    /\ pc = "resolve"
    /\ data = None
    /\ threads_data \in DirectThreadMaps
    /\ summaries \in DirectSummaries
    /\ categories \in DirectCategories

InitGraph ==
    /\ InitMain \/ InitDirect
    /\ related_threads = EmptyDict
    /\ graph_data = None
    /\ result = None
    /\ first_run = None
    /\ value = None
    /\ files = None

\* main: the three read_json calls
ReadInputs ==
    /\ pc = "main"
    /\ LET t == read_json(data.tweets)
           u == read_json(data.summary)
           c == read_json(data.map)
       IN  IF t.ok /\ u.ok /\ c.ok
           THEN /\ threads_data' = t.val
                /\ summaries' = u.val
                /\ categories' = c.val
                /\ pc' = "resolve"
                /\ UNCHANGED result
           ELSE /\ result' = IF ~t.ok THEN t ELSE IF ~u.ok THEN u ELSE c
                /\ pc' = "error_read"
                /\ UNCHANGED <<threads_data, summaries, categories>>
    /\ UNCHANGED <<value, data, files, related_threads, graph_data, first_run>>

\* process_threads: graph_data = [] and the pass that fills related_threads
Resolve ==
    /\ pc = "resolve"
    /\ LET r == ScanThreads(threads_data, 1, FreshRelated(related_threads))
       IN  IF r.ok
           THEN /\ related_threads' = r.val
                /\ graph_data' = <<>>
                /\ pc' = "assemble"
                /\ UNCHANGED result
           ELSE /\ result' = r
                /\ pc' = "error_resolve"
                /\ UNCHANGED <<related_threads, graph_data>>
    /\ UNCHANGED <<value, data, files, threads_data, summaries, categories,
                   first_run>>

\* process_threads: the pass that appends one node per thread, and the return
Assemble ==
    /\ pc = "assemble"
    /\ LET r == AssembleFrom(threads_data, 1, summaries, categories,
                             related_threads, graph_data)
       IN  IF r.ok
           THEN /\ graph_data' = r.val
                /\ pc' = "done"
                /\ UNCHANGED result
           ELSE /\ result' = r
                /\ pc' = "error_assemble"
                /\ UNCHANGED graph_data
    /\ UNCHANGED <<value, data, files, threads_data, summaries, categories,
                   related_threads, first_run>>

\* the same artifacts are processed again by a new process (main), or the
\* same mappings are handed to process_threads again (a direct caller)
Rerun ==
    /\ pc = "done"
    /\ first_run = None
    /\ first_run' = [threads_data |-> threads_data, summaries |-> summaries,
                     categories |-> categories, graph_data |-> graph_data]
    /\ IF data # None
       THEN /\ pc' = "main"
            /\ threads_data' = None
            /\ summaries' = None
            /\ categories' = None
            /\ related_threads' = EmptyDict
       ELSE /\ pc' = "resolve"
            /\ UNCHANGED <<threads_data, summaries, categories, related_threads>>
    /\ graph_data' = None
    /\ UNCHANGED <<value, data, files, result>>

NextGraph == ReadInputs \/ Resolve \/ Assemble \/ Rerun

SpecGraph == InitGraph /\ [][NextGraph]_vars

(***************************************************************************)
(* Claims about process_threads and main (checked under SpecGraph)         *)
(***************************************************************************)
Nodes == 1..Len(graph_data)

NodeIds == {graph_data[i].id : i \in Nodes}

Finished == pc = "done"

\* the thread ids recorded by the tweets of one thread that embed T
RefsFrom(thread, T) ==
    LET refs == SelectSeq(thread,
                          LAMBDA tw : IsEmbed(EmbedOf(tw)) /\ EmbedOf(tw).id = T)
    IN  [j \in 1..Len(refs) |-> thread[1].id]

\* the same over all threads from entry i on, in mapping order
RECURSIVE AllRefs(_, _, _)
AllRefs(td, i, T) ==
    IF i > Len(td) THEN <<>>
    ELSE RefsFrom(td[i].v, T) \o AllRefs(td, i + 1, T)

\* C5: a node's related_threads is the sequence, in thread-then-tweet scan
\* order, of the first-tweet ids of the threads holding a tweet that embeds
\* the node's thread, one entry per embedding tweet, the node's own id removed.
C5_RelatedThreadsExact ==
    Finished =>
        \A i \in Nodes :
            graph_data[i].related_threads =
                SelectSeq(AllRefs(threads_data, 1, threads_data[i].k),
                          LAMBDA rid : rid # threads_data[i].k)

\* C5 witness: thread 1 embeds itself and two tweets of thread 2 embed it;
\* node 1 lists thread 2 twice and itself never.
C5_Witness ==
    /\ Finished
    /\ \E i \in Nodes :
           /\ graph_data[i].id = "1"
           /\ threads_data[i].v # <<>>
           /\ IsEmbed(EmbedOf(threads_data[i].v[1]))
           /\ EmbedOf(threads_data[i].v[1]).id = "1"
           /\ graph_data[i].related_threads = <<"2", "2">>

\* a stat of the document that parse_stat rejects
SomeStatUnparseable ==
    \E i \in 1..Len(threads_data) :
        \E j \in 1..Len(threads_data[i].v) :
            \E k \in 1..Len(StatKeys) :
                ~parse_stat(Get(Get(threads_data[i].v[j], "stats", EmptyRecord),
                                StatKeys[k], IntV(0))).ok

\* C7: one node per key of the thread mapping, in the mapping's order, with
\* the key as id and the base path plus the id as url; a key without summary
\* gets "", a key without categories gets [], and neither absence is an error.
C7_OneNodePerThread ==
    /\ Finished =>
           /\ Len(graph_data) = Len(threads_data)
           /\ \A i \in Nodes :
                  /\ graph_data[i].id = threads_data[i].k
                  /\ graph_data[i].url =
                         "https://twitter.com/Recuenco/status/" \o threads_data[i].k
                  /\ (threads_data[i].k \notin KeySet(summaries) =>
                          graph_data[i].summary = "")
                  /\ (threads_data[i].k \notin KeySet(categories) =>
                          graph_data[i].categories = ListV(<<>>))
    /\ pc = "error_assemble" => SomeStatUnparseable

\* C7 witness: thread 3 has neither summary nor categories, identifier 9 has
\* both and heads no thread; node 3 carries the defaults and no node is 9.
C7_Witness ==
    /\ Finished
    /\ "9" \in KeySet(summaries) /\ "9" \in KeySet(categories)
    /\ "9" \notin NodeIds
    /\ \E i \in Nodes :
           /\ graph_data[i].id = "3"
           /\ "3" \notin KeySet(summaries) \cup KeySet(categories)
           /\ graph_data[i].summary = ""
           /\ graph_data[i].categories = ListV(<<>>)

\* the parsed value of one stat of one tweet, 0 when the tweet has no stats
\* record or the record has no such key
StatOf(tweet, key) ==
    parse_stat(Get(Get(tweet, "stats", EmptyRecord), key, IntV(0))).val

RECURSIVE SumOfStat(_, _)
SumOfStat(thread, key) ==
    IF thread = <<>> THEN 0
    ELSE StatOf(Head(thread), key) + SumOfStat(Tail(thread), key)

Reordered(thread, p) == [j \in 1..Len(thread) |-> thread[p[j]]]

\* C8: each of a node's four totals is the sum of parse_stat over the
\* thread's tweets, and aggregating any permutation of the tweets gives the
\* same four totals.
C8_TotalsAreOrderFreeSums ==
    Finished =>
        \A i \in Nodes :
            LET thread == threads_data[i].v
                totals == [k \in {"replies", "likes", "bookmarks", "views"} |->
                               graph_data[i][k]]
            IN  /\ \A k \in DOMAIN totals : totals[k] = SumOfStat(thread, k)
                /\ \A p \in Permutations(1..Len(thread)) :
                       StatsTotal(Reordered(thread, p)) = Ok(totals)

\* C8 witness: three tweets with replies 1, "2" and "3" total 6.
C8_Witness ==
    /\ Finished
    /\ \E i \in Nodes :
           /\ Len(threads_data[i].v) = 3
           /\ {StatOf(threads_data[i].v[j], "replies") : j \in 1..3} = {1, 2, 3}
           /\ graph_data[i].replies = 6
           /\ graph_data[i].likes = 1500
           /\ graph_data[i].views = 2000000

\* C9: a second run on the same inputs ends with the same output sequence
\* as the first, and with the three input mappings as the first run had them.
C9_RerunSameOutput ==
    Finished /\ first_run # None =>
        /\ graph_data = first_run.graph_data
        /\ threads_data = first_run.threads_data
        /\ summaries = first_run.summaries
        /\ categories = first_run.categories

\* C9 witness: a second run has finished with a node that has related threads.
C9_Witness ==
    /\ Finished
    /\ first_run # None
    /\ \E i \in Nodes : graph_data[i].related_threads # <<>>

\* the identifiers the tweets of db/tweets.json embed
EmbedTargets ==
    {EmbedOf(data.tweets.l[i].l[j]).id :
         <<i, j>> \in {<<i, j>> \in (1..Len(data.tweets.l)) \X (1..MaxCorpus) :
                          /\ j <= Len(data.tweets.l[i].l)
                          /\ IsEmbed(EmbedOf(data.tweets.l[i].l[j]))}}

\* C10: when main loads the thread mapping, every identifier in a node's
\* related_threads is the id of a node of the same output and not the node's
\* own; an embed target that heads no thread gets no node and is in no
\* related_threads list.
C10_RelatedThreadsClosed ==
    Finished /\ data # None =>
        /\ \A i \in Nodes :
               \A j \in 1..Len(graph_data[i].related_threads) :
                   /\ graph_data[i].related_threads[j] \in NodeIds
                   /\ graph_data[i].related_threads[j] # graph_data[i].id
        /\ \A x \in EmbedTargets \ KeySet(threads_data) :
               /\ x \notin NodeIds
               /\ \A i \in Nodes :
                      \A j \in 1..Len(graph_data[i].related_threads) :
                          graph_data[i].related_threads[j] # x

\* C10 witness: main finished on a document where a later tweet of one thread
\* embeds another thread and some tweet embeds an identifier that heads none.
C10_Witness ==
    /\ Finished
    /\ data # None
    /\ "9" \in EmbedTargets
    /\ \E i \in Nodes :
           /\ graph_data[i].related_threads # <<>>
           /\ \E e \in 1..Len(threads_data) :
                  /\ Len(threads_data[e].v) > 1
                  /\ IsEmbed(EmbedOf(threads_data[e].v[2]))
                  /\ EmbedOf(threads_data[e].v[2]).id = graph_data[i].id
                  /\ threads_data[e].k # graph_data[i].id

====
